---------------------------- MODULE Spec2Model ----------------------------
(***************************************************************************)
(* Model of network.js: the dense Matrix class and the NNetwork class.     *)
(*                                                                         *)
(* JavaScript objects are modelled with an explicit heap, so that sharing  *)
(* of storage between matrices is something the model can exhibit:         *)
(*   heap.mat[m]  the `data` field of Matrix object m (an array id)        *)
(*   heap.arr[a]  the outer array a: a sequence of row-array ids           *)
(*   heap.row[r]  the row array r: a sequence of numbers                   *)
(* Matrix id 0 is the value `false` the binary operations return on a      *)
(* shape mismatch.  Indices are 1-based here and 0-based in the source.    *)
(*                                                                         *)
(* Numbers: IEEE doubles are modelled as fixed-point decimals, an integer  *)
(* n standing for n / ONE.  Products and quotients are rounded toward 0.   *)
(* Math.exp is a library function; it is replaced by a positive, monotone  *)
(* piecewise-rational function with exp(0) = 1 and exp(-y) = 1 / exp(y).   *)
(* Non-finite doubles (NaN, Infinity) are outside the model.               *)
(***************************************************************************)
EXTENDS Integers, Sequences, FiniteSets, TLC

VARIABLES heap, net, imgData, labels, pc, hist, mA, mB, mR

vars == <<heap, net, imgData, labels, pc, hist, mA, mB, mR>>

----------------------------------------------------------------------------
(* Bounds of the model *)

\* number of top-level calls made on a network
MaxSteps == 2
\* largest argument of train
MaxCount == 2
\* number of top-level calls made on the free-standing matrices
MaxOps == 2
\* largest row / column count of a free-standing matrix
MaxDim == 2

----------------------------------------------------------------------------
(* Numbers *)

\* fixed-point unit: the integer standing for 1.0 (three decimal digits)
ONE == 10 * 10 * 10

Abs(x) == IF x < 0 THEN -x ELSE x

Sgn(x) == IF x < 0 THEN -1 ELSE 1

\* x * y on fixed-point numbers
Mul(x, y) == Sgn(x) * Sgn(y) * ((Abs(x) * Abs(y)) \div ONE)

\* x / y on fixed-point numbers, y # 0
Div(x, y) == Sgn(x) * Sgn(y) * ((Abs(x) * ONE) \div Abs(y))

\* Math.exp
MathExp(y) == IF y >= 0 THEN ONE + y ELSE Div(ONE, ONE - y)

sigmoid(x) == Div(ONE, ONE + MathExp(-x))

sigPrime(x) ==
  LET exponent == MathExp(-x)
  IN  Div(exponent, Mul(exponent + ONE, exponent + ONE))

\* the function values passed to Matrix.apply
Call(f, x) == IF f = "sigmoid" THEN sigmoid(x) ELSE sigPrime(x)

----------------------------------------------------------------------------
(* Heap *)

\* the value `false`
False == 0

EmptyHeap == [mat |-> <<>>, arr |-> <<>>, row |-> <<>>, err |-> FALSE, ret |-> 0]

\* a TypeError: a method called on `false`
Throw(h) == [h EXCEPT !.err = TRUE]

\* const x = v; e   is written   Only({e : x \in {v}}) : v is evaluated once and
\* x names its value in e.  A sequence of statements is a nest of these, read
\* from the last binding written (the first statement) up to the first.
Only(S) == CHOOSE r \in S : TRUE

\* row-major list of the cells of a rows x columns grid
Cells(rows, columns) ==
  [k \in 1..(rows * columns) |-> <<((k - 1) \div columns) + 1, ((k - 1) % columns) + 1>>]

----------------------------------------------------------------------------
(* class Matrix.  A method takes the heap h and returns the heap it leaves; *)
(* a returned matrix is in the field ret.  The loops over the cells run in  *)
(* the order of the source, k counting the cells done.                      *)

\* val is <<>> for an omitted argument and <<v>> for the value v;
\* rand[r][c] is the value Math.random() * 10 - 5 takes for cell (r, c)
MatrixNew(h, rows, columns, val, rand) ==
  [h EXCEPT !.row = @ \o [r \in 1..rows |->
                            [c \in 1..columns |-> IF val = <<>> THEN rand[r][c] ELSE val[1]]],
            !.arr = Append(@, [r \in 1..rows |-> Len(h.row) + r]),
            !.mat = Append(@, Len(h.arr) + 1),
            !.ret = Len(h.mat) + 1]

\* the random values of a matrix every cell of which is then overwritten
Scratch(rows, columns) == [r \in 1..rows |-> [c \in 1..columns |-> 0]]

size(h, m) == <<Len(h.arr[h.mat[m]]), Len(h.row[h.arr[h.mat[m]][1]])>>

set(h, m, r, c, value) == [h EXCEPT !.row[h.arr[h.mat[m]][r]][c] = value]

get(h, m, r, c) == h.row[h.arr[h.mat[m]][r]][c]

RECURSIVE multTotal(_, _, _, _, _, _, _)
multTotal(h, a, b, i, j, k, n) ==
  IF k > n THEN 0
  ELSE Mul(get(h, a, i, k), get(h, b, k, j)) + multTotal(h, a, b, i, j, k + 1, n)

RECURSIVE multLoop(_, _, _, _, _, _, _)
multLoop(h, a, b, result, n, cells, k) ==
  IF k > Len(cells) THEN h
  ELSE Only({
           multLoop(h1, a, b, result, n, cells, k + 1)
         : h1 \in {set(h, result, cells[k][1], cells[k][2],
                       multTotal(h, a, b, cells[k][1], cells[k][2], 1, n))} })

mult(h, a, matB) ==
  IF h.err \/ a = False \/ matB = False THEN Throw(h)
  ELSE IF size(h, a)[2] # size(h, matB)[1] THEN [h EXCEPT !.ret = False]
  ELSE LET r == size(h, a)[1]
           c == size(h, matB)[2]
           n == size(h, a)[2]
       IN  Only({ Only({
               [h2 EXCEPT !.ret = h1.ret]
             : h2 \in {multLoop(h1, a, matB, h1.ret, n, Cells(r, c), 1)} })
             : h1 \in {MatrixNew(h, r, c, <<>>, Scratch(r, c))} })

\* the arithmetic of add, subtract and hadamard
Arith(op, x, y) ==
  CASE op = "add" -> x + y
    [] op = "subtract" -> x - y
    [] op = "hadamard" -> Mul(x, y)

RECURSIVE elementLoop(_, _, _, _, _, _, _)
elementLoop(h, op, a, b, result, cells, k) ==
  IF k > Len(cells) THEN h
  ELSE Only({
           elementLoop(h1, op, a, b, result, cells, k + 1)
         : h1 \in {set(h, result, cells[k][1], cells[k][2],
                       Arith(op, get(h, a, cells[k][1], cells[k][2]), get(h, b, cells[k][1], cells[k][2])))} })

\* add / subtract / hadamard that go on to a result of the receiver's shape
\* when the shapes differ
elementwiseLenient(h, op, a, matB) ==
  IF h.err \/ a = False \/ matB = False THEN Throw(h)
  ELSE LET rows == size(h, a)[1]
           columns == size(h, a)[2]
       IN  Only({ Only({
               [h2 EXCEPT !.ret = h1.ret]
             : h2 \in {IF size(h, a) = size(h, matB)
                       THEN elementLoop(h1, op, a, matB, h1.ret, Cells(rows, columns), 1)
                       ELSE h1} })
             : h1 \in {MatrixNew(h, rows, columns, <<>>, Scratch(rows, columns))} })

\* the body add, subtract and hadamard have in common
elementwise(h, op, a, matB) ==
  IF h.err \/ a = False \/ matB = False THEN Throw(h)
  ELSE IF size(h, a)[1] # size(h, matB)[1] \/ size(h, a)[2] # size(h, matB)[2]
       THEN [h EXCEPT !.ret = False]
  ELSE LET rows == size(h, a)[1]
           columns == size(h, a)[2]
       IN  Only({ Only({
               [h2 EXCEPT !.ret = h1.ret]
             : h2 \in {elementLoop(h1, op, a, matB, h1.ret, Cells(rows, columns), 1)} })
             : h1 \in {MatrixNew(h, rows, columns, <<>>, Scratch(rows, columns))} })

add(h, a, matB) == elementwise(h, "add", a, matB)

subtract(h, a, matB) == elementwise(h, "subtract", a, matB)

hadamard(h, a, matB) == elementwise(h, "hadamard", a, matB)

RECURSIVE scalarLoop(_, _, _, _, _, _)
scalarLoop(h, m, op, x, cells, k) ==
  IF k > Len(cells) THEN h
  ELSE LET r == cells[k][1]
           c == cells[k][2]
           result == IF op = "div" THEN Div(get(h, m, r, c), x) ELSE Mul(get(h, m, r, c), x)
       IN  Only({
               scalarLoop(h1, m, op, x, cells, k + 1)
             : h1 \in {set(h, m, r, c, result)} })

scalarDiv(h, m, divisor) ==
  IF h.err \/ m = False THEN Throw(h)
  ELSE scalarLoop(h, m, "div", divisor, Cells(size(h, m)[1], size(h, m)[2]), 1)

scalarMult(h, m, multiplier) ==
  IF h.err \/ m = False THEN Throw(h)
  ELSE scalarLoop(h, m, "mult", multiplier, Cells(size(h, m)[1], size(h, m)[2]), 1)

RECURSIVE transposeLoop(_, _, _, _, _)
transposeLoop(h, m, other, cells, k) ==
  IF k > Len(cells) THEN h
  ELSE Only({
           transposeLoop(h1, m, other, cells, k + 1)
         : h1 \in {set(h, other, cells[k][2], cells[k][1], get(h, m, cells[k][1], cells[k][2]))} })

\* transpose() that builds the transposed grid and never installs it
transposeDropped(h, m) ==
  IF h.err \/ m = False THEN Throw(h)
  ELSE LET rows == size(h, m)[1]
           columns == size(h, m)[2]
       IN  Only({
               transposeLoop(h1, m, h1.ret, Cells(rows, columns), 1)
             : h1 \in {MatrixNew(h, columns, rows, <<0>>, <<>>)} })

transpose(h, m) ==
  IF h.err \/ m = False THEN Throw(h)
  ELSE LET rows == size(h, m)[1]
           columns == size(h, m)[2]
       IN  Only({ Only({
               [h2 EXCEPT !.mat[m] = h2.mat[h1.ret]]
             : h2 \in {transposeLoop(h1, m, h1.ret, Cells(rows, columns), 1)} })
             : h1 \in {MatrixNew(h, columns, rows, <<0>>, <<>>)} })

RECURSIVE applyLoop(_, _, _, _, _)
applyLoop(h, m, f, cells, k) ==
  IF k > Len(cells) THEN h
  ELSE Only({
           applyLoop(h1, m, f, cells, k + 1)
         : h1 \in {set(h, m, cells[k][1], cells[k][2], Call(f, get(h, m, cells[k][1], cells[k][2])))} })

apply(h, m, f) ==
  IF h.err \/ m = False THEN Throw(h)
  ELSE applyLoop(h, m, f, Cells(size(h, m)[1], size(h, m)[2]), 1)

\* this.data[i] = [...matB.data[i]] for the i-th row (1-based) and those after it
RECURSIVE cloneLoop(_, _, _, _)
cloneLoop(h, m, matB, i) ==
  IF i > Len(h.arr[h.mat[m]]) THEN h
  ELSE Only({
           cloneLoop(h1, m, matB, i + 1)
         : h1 \in {[h EXCEPT !.row = Append(@, h.row[h.arr[h.mat[matB]][i]]),
                             !.arr[h.mat[m]][i] = Len(h.row) + 1]} })

\* clone() that copies the outer array only: the rows stay those of matB
cloneShallow(h, m, matB) ==
  IF h.err \/ m = False \/ matB = False THEN Throw(h)
  ELSE [h EXCEPT !.arr = Append(@, h.arr[h.mat[matB]]), !.mat[m] = Len(h.arr) + 1]

clone(h, m, matB) ==
  IF h.err \/ m = False \/ matB = False THEN Throw(h)
  ELSE Only({
           cloneLoop(h1, m, matB, 1)
         : h1 \in {[h EXCEPT !.arr = Append(@, h.arr[h.mat[matB]]), !.mat[m] = Len(h.arr) + 1]} })

----------------------------------------------------------------------------
(* Views of the heap used to state properties *)

\* the grid of numbers matrix m holds
Val(h, m) == [r \in 1..Len(h.arr[h.mat[m]]) |-> h.row[h.arr[h.mat[m]][r]]]

\* every row of m has the same length, and m has at least one row and column
Rectangular(h, m) ==
  /\ Len(h.arr[h.mat[m]]) >= 1
  /\ \A r \in 1..Len(h.arr[h.mat[m]]) :
        Len(h.row[h.arr[h.mat[m]][r]]) = Len(h.row[h.arr[h.mat[m]][1]])
  /\ Len(h.row[h.arr[h.mat[m]][1]]) >= 1

HasShape(h, m, rows, columns) ==
  /\ m # False
  /\ Rectangular(h, m)
  /\ size(h, m) = <<rows, columns>>

\* the row arrays matrix m writes through
RowsOf(h, m) == {h.arr[h.mat[m]][r] : r \in 1..Len(h.arr[h.mat[m]])}

\* two matrices share storage when they are the same object, or hold the
\* same outer array, or hold a common row array
Shares(h, m1, m2) ==
  \/ m1 = m2
  \/ h.mat[m1] = h.mat[m2]
  \/ RowsOf(h, m1) \cap RowsOf(h, m2) # {}

----------------------------------------------------------------------------
(* Garbage collection: objects no variable reaches are dropped and the     *)
(* remaining ones renumbered in the order the roots reach them.            *)

RECURSIVE Dedupe(_, _, _)
Dedupe(seq, acc, k) ==
  IF k > Len(seq) THEN acc
  ELSE Only({
           Dedupe(seq, acc1, k + 1)
         : acc1 \in {IF seq[k] = 0 \/ \E i \in 1..Len(acc) : acc[i] = seq[k] THEN acc ELSE Append(acc, seq[k])} })

RECURSIVE Flatten(_, _, _)
Flatten(seqs, acc, k) ==
  IF k > Len(seqs) THEN acc
  ELSE Only({
           Flatten(seqs, acc1, k + 1)
         : acc1 \in {acc \o seqs[k]} })

Idx(seq, x) == CHOOSE i \in 1..Len(seq) : seq[i] = x

\* the live matrix objects, in the order the roots name them
LiveMats(roots) == Dedupe(roots, <<>>, 1)

Rename(live, m) == IF m = False THEN False ELSE Idx(live, m)

RenameAll(live, ids) == [i \in 1..Len(ids) |-> Rename(live, ids[i])]

Compact(h, roots) ==
  Only({ Only({ Only({ Only({
      [mat |-> [i \in 1..Len(liveM) |-> Idx(liveA, h.mat[liveM[i]])],
       arr |-> [i \in 1..Len(liveA) |->
                  [k \in 1..Len(h.arr[liveA[i]]) |-> Idx(liveR, h.arr[liveA[i]][k])]],
       row |-> [i \in 1..Len(liveR) |-> h.row[liveR[i]]],
       err |-> h.err,
       ret |-> 0]
    : liveR \in {Dedupe(allR, <<>>, 1)} })
    : allR \in {Flatten([i \in 1..Len(liveA) |-> h.arr[liveA[i]]], <<>>, 1)} })
    : liveA \in {Dedupe([i \in 1..Len(liveM) |-> h.mat[liveM[i]]], <<>>, 1)} })
    : liveM \in {LiveMats(roots)} })

----------------------------------------------------------------------------
(* State shared by the specifications *)

\* no network constructed
NoNet ==
  [weights |-> <<>>, activations |-> <<>>, Z |-> <<>>, biases |-> <<>>,
   layerCount |-> 0, structure |-> <<>>]

NetRoots(n) == n.weights \o n.biases \o n.activations \o n.Z

\* a call made by the program using the module
Event(op, on, arg) == [op |-> op, on |-> on, arg |-> arg]

\* no call of train in progress
Idle == [at |-> "idle", index |-> 0, count |-> 0]

Last == IF hist = <<>> THEN Event("new", "", <<>>) ELSE hist[Len(hist)]

----------------------------------------------------------------------------
(* class NNetwork.  A call works on a record s: s.h the heap, s.n the      *)
(* network's fields, and the locals of backProp (matrix ids, 0 undefined). *)

\* this.α = 0.01
Alpha == ONE \div 100

\* the x-th to y-th values of the stream of Math.random() results, as a grid
GridOf(stream, from, rows, columns) ==
  [r \in 1..rows |-> [c \in 1..columns |-> stream[from + (r - 1) * columns + c]]]

\* number of random values the constructor has drawn before layer l (0-based)
RECURSIVE Drawn(_, _)
Drawn(sizes, l) ==
  IF l = 0 THEN 0
  ELSE Drawn(sizes, l - 1)
       + (IF l - 1 < Len(sizes) - 1 THEN sizes[l + 1] * sizes[l] ELSE 0)
       + (IF l - 1 > 0 THEN sizes[l] ELSE 0)

RECURSIVE constructorLoop(_, _, _, _)
constructorLoop(s, sizes, stream, l) ==
  IF l >= Len(sizes) THEN s
  ELSE LET at == Drawn(sizes, l)
           hasW == l < Len(sizes) - 1
           atB == at + (IF hasW THEN sizes[l + 2] * sizes[l + 1] ELSE 0)
       IN  Only({ Only({ Only({ Only({ Only({
               constructorLoop(s1, sizes, stream, l + 1)
             : s1 \in {[s EXCEPT !.h = h4,
                                 !.n.weights = IF hasW THEN Append(@, h1.ret) ELSE @,
                                 !.n.activations = Append(@, h2.ret),
                                 !.n.Z = Append(@, h3.ret),
                                 !.n.biases = IF l > 0 THEN Append(@, h4.ret) ELSE @]} })
             : h4 \in {IF l > 0
                       THEN MatrixNew(h3, sizes[l + 1], 1, <<>>, GridOf(stream, atB, sizes[l + 1], 1))
                       ELSE h3} })
             : h3 \in {MatrixNew(h2, sizes[l + 1], 1, <<0>>, <<>>)} })
             : h2 \in {MatrixNew(h1, sizes[l + 1], 1, <<0>>, <<>>)} })
             : h1 \in {IF hasW
                       THEN MatrixNew(s.h, sizes[l + 2], sizes[l + 1], <<>>,
                                      GridOf(stream, at, sizes[l + 2], sizes[l + 1]))
                       ELSE s.h} })

\* new NNetwork(sizes), Math.random() yielding the values of stream in turn
constructor(sizes, stream) ==
  constructorLoop(
    [h |-> EmptyHeap,
     n |-> [weights |-> <<>>, activations |-> <<>>, Z |-> <<>>, biases |-> <<>>,
            layerCount |-> Len(sizes), structure |-> sizes],
     CW |-> <<>>, CB |-> <<>>, AZ |-> <<>>, X |-> <<>>],
    sizes, stream, 0)

\* calculate(l) that stores wab itself in Z[l] instead of a clone of it
calculateAliased(s, l) ==
  IF l < 1 THEN s
  ELSE Only({ Only({ Only({
           IF h4.err THEN [s EXCEPT !.h = h4]
           ELSE [s EXCEPT !.h = h4, !.n.Z[l + 1] = h2.ret, !.n.activations[l + 1] = h2.ret]
         : h4 \in {apply(h2, h2.ret, "sigmoid")} })
         : h2 \in {add(h1, h1.ret, s.n.biases[l])} })
         : h1 \in {mult(s.h, s.n.weights[l], s.n.activations[l])} })

\* calculate(l) that caches wab in biases[l - 1] instead of Z[l]
calculateWrongSlot(s, l) ==
  IF l < 1 THEN s
  ELSE Only({ Only({ Only({ Only({
           IF h4.err THEN [s EXCEPT !.h = h4]
           ELSE [s EXCEPT !.h = h4, !.n.activations[l + 1] = h2.ret]
         : h4 \in {apply(h3, h2.ret, "sigmoid")} })
         : h3 \in {clone(h2, s.n.biases[l], h2.ret)} })
         : h2 \in {add(h1, h1.ret, s.n.biases[l])} })
         : h1 \in {mult(s.h, s.n.weights[l], s.n.activations[l])} })

\* calculate(l), l the 0-based layer number; h1.ret is wa0 and h2.ret is wab
calculate(s, l) ==
  IF l < 1 THEN s
  ELSE Only({ Only({ Only({ Only({
           IF h4.err THEN [s EXCEPT !.h = h4]
           ELSE [s EXCEPT !.h = h4, !.n.activations[l + 1] = h2.ret]
         : h4 \in {apply(h3, h2.ret, "sigmoid")} })
         : h3 \in {clone(h2, s.n.Z[l + 1], h2.ret)} })
         : h2 \in {add(h1, h1.ret, s.n.biases[l])} })
         : h1 \in {mult(s.h, s.n.weights[l], s.n.activations[l])} })

RECURSIVE populateLoop(_, _, _, _)
populateLoop(h, m, sample, i) ==
  IF i >= size(h, m)[1] THEN h
  ELSE Only({
           populateLoop(h1, m, sample, i + 1)
         : h1 \in {set(h, m, i + 1, 1, sample[i + 1])} })

RECURSIVE calculateLoop(_, _)
calculateLoop(s, l) ==
  IF l >= Len(s.n.activations) THEN s
  ELSE Only({
           calculateLoop(s1, l + 1)
         : s1 \in {calculate(s, l)} })

\* forwardProp(input), input the 0-based index of a sample of data
forwardProp(s, data, input) ==
  Only({ Only({
      calculateLoop(s1, 1)
    : s1 \in {[s EXCEPT !.h = h1]} })
    : h1 \in {populateLoop(s.h, s.n.activations[1], data[input + 1], 0)} })

RECURSIVE costLoop(_, _, _, _, _)
costLoop(h, n, y, nCount, i) ==
  IF i >= nCount THEN 0
  ELSE LET value == get(h, n.activations[Len(n.structure)], i + 1, 1) - get(h, y, i + 1, 1)
       IN  Mul(value, value) + costLoop(h, n, y, nCount, i + 1)

getCost(h, n, y) ==
  LET nCount == n.structure[Len(n.structure)]
  IN  Div(costLoop(h, n, y, nCount, 0), nCount * ONE)

\* the first loop of backProp: CW, CB and AZ are allocated for layers i .. layers - 1;
\* h1.ret is CW[i - 1], h3.ret is CB[i - 1] and h5.ret is AZ[i]
RECURSIVE allocLoop(_, _, _)
allocLoop(s, dCdA, i) ==
  IF i >= Len(s.n.structure) THEN s
  ELSE Only({ Only({ Only({ Only({ Only({ Only({ Only({ Only({
           allocLoop(s1, dCdA, i + 1)
         : s1 \in {[s EXCEPT !.h = h7,
                             !.CW = Append(@, h1.ret),
                             !.CB = Append(@, h3.ret),
                             !.AZ = Append(@, h5.ret),
                             !.X = Append(@, 0)]} })
         : h7 \in {apply(h6, h5.ret, "sigPrime")} })
         : h6 \in {clone(h5, h5.ret, s.n.Z[i + 1])} })
         : h5 \in {MatrixNew(h4, s.n.structure[i + 1], 1, <<ONE>>, <<>>)} })
         : h4 \in {clone(h3, h3.ret, dCdA)} })
         : h3 \in {MatrixNew(h2, s.n.structure[i + 1], 1, <<ONE>>, <<>>)} })
         : h2 \in {clone(h1, h1.ret, dCdA)} })
         : h1 \in {MatrixNew(s.h, s.n.structure[i + 1], s.n.structure[i], <<ONE>>, <<>>)} })

\* the second loop of backProp: X, CW and CB for layers l down to 0.
\* In the top layer h1.ret is X[l] before and h3.ret after the product with AZ[l];
\* below it h1.ret is the transposed clone of weights[l], h5.ret is X[l],
\* h6.ret is aTranspose, h9.ret is CW[l], h10.ret is bTranspose, h12.ret is CB[l]
RECURSIVE gradientLoop(_, _, _)
gradientLoop(s, Y, l) ==
  IF l < 0 THEN s
  ELSE IF l = Len(s.n.structure) - 1 THEN
       Only({ Only({ Only({ Only({
           gradientLoop(s1, Y, l - 1)
         : s1 \in {[s EXCEPT !.h = h3, !.X[l + 1] = h3.ret]} })
         : h3 \in {hadamard(h2, h1.ret, s.AZ[l + 1])} })
         : h2 \in {scalarMult(h1, h1.ret, 2 * ONE)} })
         : h1 \in {subtract(s.h, s.n.activations[l + 1], Y)} })
  ELSE Only({ Only({ Only({ Only({ Only({ Only({ Only({ Only({ Only({ Only({ Only({ Only({
           IF h12.err THEN [s EXCEPT !.h = h12]
           ELSE Only({
                    gradientLoop(s1, Y, l - 1)
                  : s1 \in {[s EXCEPT !.h = h12, !.X[l + 1] = h5.ret,
                                      !.CW[l + 1] = h9.ret, !.CB[l + 1] = h12.ret]} })
         : h12 \in {hadamard(h11, s.X[l + 2], h10.ret)} })
         : h11 \in {clone(h10, h10.ret, s.n.biases[l + 1])} })
         : h10 \in {MatrixNew(h9, 1, 1, <<ONE>>, <<>>)} })
         : h9 \in {mult(h8, s.X[l + 2], h6.ret)} })
         : h8 \in {transpose(h7, h6.ret)} })
         : h7 \in {clone(h6, h6.ret, s.n.activations[l + 1])} })
         : h6 \in {MatrixNew(h5, 1, 1, <<ONE>>, <<>>)} })
         : h5 \in {hadamard(h4, h4.ret, s.AZ[l + 1])} })
         : h4 \in {mult(h3, h1.ret, s.X[l + 2])} })
         : h3 \in {transpose(h2, h1.ret)} })
         : h2 \in {clone(h1, h1.ret, s.n.weights[l + 1])} })
         : h1 \in {MatrixNew(s.h, 1, 1, <<ONE>>, <<>>)} })

\* the update param -= alpha * gradient of plain gradient descent
RECURSIVE updateLoopAdditive(_, _)
updateLoopAdditive(s, l) ==
  IF l >= Len(s.n.structure) - 1 \/ s.h.err THEN s
  ELSE Only({ Only({ Only({ Only({ Only({ Only({ Only({ Only({
           IF h10.err THEN [s EXCEPT !.h = h10]
           ELSE Only({
                    updateLoopAdditive(s1, l + 1)
                  : s1 \in {[s EXCEPT !.h = h10,
                                      !.n.weights[l + 1] = h5.ret,
                                      !.n.biases[l + 1] = h10.ret]} })
         : h10 \in {subtract(h8, s.n.biases[l + 1], h6.ret)} })
         : h8 \in {scalarMult(h7, h6.ret, Alpha)} })
         : h7 \in {clone(h6, h6.ret, s.CB[l + 1])} })
         : h6 \in {MatrixNew(h5, 1, 1, <<ONE>>, <<>>)} })
         : h5 \in {subtract(h3, s.n.weights[l + 1], h1.ret)} })
         : h3 \in {scalarMult(h2, h1.ret, Alpha)} })
         : h2 \in {clone(h1, h1.ret, s.CW[l + 1])} })
         : h1 \in {MatrixNew(s.h, 1, 1, <<ONE>>, <<>>)} })

\* the third loop of backProp: the update of weights[l] and biases[l];
\* h1.ret is scaledW before and h4.ret after the product with CW[l], h5.ret the
\* new weights[l], h6.ret is scaledB, h9.ret its product with CB[l], h10.ret the
\* new biases[l]
RECURSIVE updateLoop(_, _)
updateLoop(s, l) ==
  IF l >= Len(s.n.structure) - 1 \/ s.h.err THEN s
  ELSE Only({ Only({ Only({ Only({ Only({ Only({ Only({ Only({ Only({ Only({
           IF h5.err THEN [s EXCEPT !.h = h5]
           ELSE IF h10.err THEN [s EXCEPT !.h = h10, !.n.weights[l + 1] = h5.ret]
           ELSE Only({
                    updateLoop(s1, l + 1)
                  : s1 \in {[s EXCEPT !.h = h10,
                                      !.n.weights[l + 1] = h5.ret,
                                      !.n.biases[l + 1] = h10.ret]} })
         : h10 \in {subtract(h9, s.n.biases[l + 1], h9.ret)} })
         : h9 \in {hadamard(h8, h6.ret, s.CB[l + 1])} })
         : h8 \in {scalarMult(h7, h6.ret, Alpha)} })
         : h7 \in {clone(h6, h6.ret, s.n.biases[l + 1])} })
         : h6 \in {MatrixNew(h5, 1, 1, <<ONE>>, <<>>)} })
         : h5 \in {subtract(h4, s.n.weights[l + 1], h4.ret)} })
         : h4 \in {hadamard(h3, h1.ret, s.CW[l + 1])} })
         : h3 \in {scalarMult(h2, h1.ret, Alpha)} })
         : h2 \in {clone(h1, h1.ret, s.n.weights[l + 1])} })
         : h1 \in {MatrixNew(s.h, 1, 1, <<ONE>>, <<>>)} })

\* backProp(index), index the 0-based index of a label of lab; h1.ret is Y,
\* h3.ret is dCdA and h5.ret is AZ[0]
backProp(s, lab, index) ==
  LET desired == lab[index + 1]
      layers == Len(s.n.structure)
  IN  Only({ Only({ Only({ Only({ Only({ Only({ Only({ Only({ Only({ Only({
          updateLoop(s2, 0)
        : s2 \in {gradientLoop(s1, h1.ret, layers - 1)} })
        : s1 \in {allocLoop(s0, h3.ret, 1)} })
        : s0 \in {[s EXCEPT !.h = h7, !.CW = <<>>, !.CB = <<>>,
                            !.AZ = <<h5.ret>>, !.X = <<0>>]} })
        : h7 \in {apply(h6, h5.ret, "sigPrime")} })
        : h6 \in {clone(h5, h5.ret, s.n.Z[1])} })
        : h5 \in {MatrixNew(h4, s.n.structure[1], 1, <<ONE>>, <<>>)} })
        : h4 \in {scalarMult(h3, h3.ret, 2 * ONE)} })
        : h3 \in {subtract(h2, s.n.activations[layers], h1.ret)} })
        : h2 \in {set(h1, h1.ret, desired + 1, 1, ONE)} })
        : h1 \in {MatrixNew(s.h, s.n.structure[layers], 1, <<0>>, <<>>)} })

----------------------------------------------------------------------------
(* The Matrix class on its own: two matrices A and B and the result R of   *)
(* the last binary operation                                               *)

\* values Math.random() * 10 - 5 takes in a free-standing matrix
EntryVals == {ONE, 2 * ONE}

\* arguments of scalarMult and scalarDiv (a zero divisor is not guarded by
\* the code and yields non-finite values; it is not drawn)
ScalarVals == {2 * ONE}

\* the value written by set
SetVals == {3 * ONE}

Grids(rows, columns) == [1..rows -> [1..columns -> EntryVals]]

InitM ==
  /\ net = NoNet
  /\ imgData = <<>>
  /\ labels = <<>>
  /\ pc = Idle
  /\ hist = <<>>
  /\ mA = 1
  /\ mB = 2
  /\ mR = False
  /\ \E ra \in 1..MaxDim, ca \in 1..MaxDim, rb \in 1..MaxDim, cb \in 1..MaxDim :
       \E ga \in Grids(ra, ca), gb \in Grids(rb, cb) :
          \E h1 \in {MatrixNew(EmptyHeap, ra, ca, <<>>, ga)} :
             \E h2 \in {MatrixNew(h1, rb, cb, <<>>, gb)} :
                heap = Compact(h2, <<1, 2>>)

Recv(on) == IF on = "A" THEN mA ELSE mB

Arg(on) == IF on = "A" THEN mB ELSE mA

\* the state after a call on the free-standing matrices that left heap h
\* and returned matrix r
DoneM(h, r, ev) ==
  \E live \in {LiveMats(<<mA, mB, r>>)} :
    /\ heap' = Compact(h, <<mA, mB, r>>)
    /\ mA' = Rename(live, mA)
    /\ mB' = Rename(live, mB)
    /\ mR' = Rename(live, r)
    /\ hist' = Append(hist, ev)
    /\ UNCHANGED <<net, imgData, labels, pc>>

CanM == pc = Idle /\ mA # False /\ Len(hist) < MaxOps

MMult ==
  /\ CanM
  /\ \E on \in {"A", "B"} :
       \E h \in {mult(heap, Recv(on), Arg(on))} :
          DoneM(h, h.ret, Event("mult", on, <<>>))

MAdd ==
  /\ CanM
  /\ \E on \in {"A", "B"} :
       \E h \in {add(heap, Recv(on), Arg(on))} :
          DoneM(h, h.ret, Event("add", on, <<>>))

MSubtract ==
  /\ CanM
  /\ \E on \in {"A", "B"} :
       \E h \in {subtract(heap, Recv(on), Arg(on))} :
          DoneM(h, h.ret, Event("subtract", on, <<>>))

MHadamard ==
  /\ CanM
  /\ \E on \in {"A", "B"} :
       \E h \in {hadamard(heap, Recv(on), Arg(on))} :
          DoneM(h, h.ret, Event("hadamard", on, <<>>))

MScalarDiv ==
  /\ CanM
  /\ \E on \in {"A", "B"}, x \in ScalarVals :
       \E h \in {scalarDiv(heap, Recv(on), x)} :
          DoneM(h, mR, Event("scalarDiv", on, <<x>>))

MScalarMult ==
  /\ CanM
  /\ \E on \in {"A", "B"}, x \in ScalarVals :
       \E h \in {scalarMult(heap, Recv(on), x)} :
          DoneM(h, mR, Event("scalarMult", on, <<x>>))

MTranspose ==
  /\ CanM
  /\ \E on \in {"A", "B"} :
       \E h \in {transpose(heap, Recv(on))} :
          DoneM(h, mR, Event("transpose", on, <<>>))

MApply ==
  /\ CanM
  /\ \E on \in {"A", "B"}, f \in {"sigmoid", "sigPrime"} :
       \E h \in {apply(heap, Recv(on), f)} :
          DoneM(h, mR, Event("apply:" \o f, on, <<>>))

MSet ==
  /\ CanM
  /\ \E on \in {"A", "B"}, value \in SetVals :
       \E r \in 1..size(heap, Recv(on))[1], c \in 1..size(heap, Recv(on))[2] :
          \E h \in {set(heap, Recv(on), r, c, value)} :
             DoneM(h, mR, Event("set", on, <<r, c, value>>))

MClone ==
  /\ CanM
  /\ \E on \in {"A", "B"} :
       \E h \in {clone(heap, Recv(on), Arg(on))} :
          DoneM(h, mR, Event("clone", on, <<>>))

NextM ==
  \/ MMult
  \/ MAdd
  \/ MSubtract
  \/ MHadamard
  \/ MScalarDiv
  \/ MScalarMult
  \/ MTranspose
  \/ MApply
  \/ MSet
  \/ MClone

SpecM == InitM /\ [][NextM]_vars

\* the fields of network n after the collection
Renamed(n) ==
  Only({
      [n EXCEPT !.weights = RenameAll(live, @),
                !.biases = RenameAll(live, @),
                !.activations = RenameAll(live, @),
                !.Z = RenameAll(live, @)]
    : live \in {LiveMats(NetRoots(n))} })

----------------------------------------------------------------------------
(* A network, the data set it is trained on, and the calls made on it      *)

\* layer-size sequences the network is constructed with
Structures == {<<2, 1>>, <<1, 2>>, <<1, 1, 1>>}

\* values Math.random() * 10 - 5 takes in the constructor
RandVals == {-ONE, 0, 2 * ONE}

\* values of a pixel divided by 255
InputVals == {0, ONE}

\* number of samples of the data set
Samples == 2

Init ==
  /\ pc = Idle
  /\ hist = <<>>
  /\ mA = False
  /\ mB = False
  /\ mR = False
  /\ \E sizes \in Structures :
       /\ \E stream \in [1..Drawn(sizes, Len(sizes)) -> RandVals] :
            \E s \in {constructor(sizes, stream)} :
               /\ heap = Compact(s.h, NetRoots(s.n))
               /\ net = Renamed(s.n)
       /\ imgData \in [1..Samples -> [1..sizes[1] -> InputVals]]
       /\ labels \in [1..Samples -> 0..(sizes[Len(sizes)] - 1)]

\* the record a call on the network works on
Self == [h |-> heap, n |-> net, CW |-> <<>>, CB |-> <<>>, AZ |-> <<>>, X |-> <<>>]

\* the network and the heap after a call that left them as s
DoneN(s) ==
  /\ heap' = Compact(s.h, NetRoots(s.n))
  /\ net' = Renamed(s.n)

\* number of calls the program has made on the network
Steps == Cardinality({i \in 1..Len(hist) : hist[i].on = "net"})

CanN == pc = Idle /\ net.layerCount > 0 /\ ~heap.err /\ Steps < MaxSteps

ForwardProp ==
  /\ CanN
  /\ \E input \in 0..(Len(imgData) - 1) :
       /\ \E s \in {forwardProp(Self, imgData, input)} : DoneN(s)
       /\ hist' = Append(hist, Event("forwardProp", "net", <<input>>))
  /\ UNCHANGED <<imgData, labels, pc, mA, mB, mR>>

BackProp ==
  /\ CanN
  /\ \E index \in 0..(Len(labels) - 1) :
       /\ \E s \in {backProp(Self, labels, index)} : DoneN(s)
       /\ hist' = Append(hist, Event("backProp", "net", <<index>>))
  /\ UNCHANGED <<imgData, labels, pc, mA, mB, mR>>

\* getCost(y), y the one-hot vector of the class desired
GetCost ==
  /\ CanN
  /\ \E desired \in 0..(net.structure[Len(net.structure)] - 1) :
       \E h1 \in {MatrixNew(heap, net.structure[Len(net.structure)], 1, <<0>>, <<>>)} :
          \E h2 \in {set(h1, h1.ret, desired + 1, 1, ONE)} :
             hist' = Append(hist, Event("getCost", "net", <<desired, getCost(h2, net, h1.ret)>>))
  /\ UNCHANGED <<heap, net, imgData, labels, pc, mA, mB, mR>>

\* train(count) is entered: let index = 0
Train ==
  /\ CanN
  /\ \E count \in 0..MaxCount :
       /\ pc' = [at |-> "loop", index |-> 0, count |-> count]
       /\ hist' = Append(hist, Event("train", "net", <<count>>))
  /\ UNCHANGED <<heap, net, imgData, labels, mA, mB, mR>>

\* the position of train after the statement at position p
TrainPc(p) ==
  IF p.at = "back" THEN [p EXCEPT !.at = "loop", !.index = @ + 1]
  ELSE IF p.index < p.count THEN [p EXCEPT !.at = "back"]
  ELSE Idle

\* the loop body with this.forwardProp(index)
TrainForwardIndexed ==
  /\ pc.at = "loop"
  /\ pc.index < pc.count
  /\ ~heap.err
  /\ \E s \in {forwardProp(Self, imgData, pc.index)} : DoneN(s)
  /\ pc' = TrainPc(pc)
  /\ hist' = Append(hist, Event("forwardProp", "train", <<pc.index>>))
  /\ UNCHANGED <<imgData, labels, mA, mB, mR>>

\* index < count: this.forwardProp(0)
TrainForward ==
  /\ pc.at = "loop"
  /\ pc.index < pc.count
  /\ ~heap.err
  /\ \E s \in {forwardProp(Self, imgData, 0)} : DoneN(s)
  /\ pc' = TrainPc(pc)
  /\ hist' = Append(hist, Event("forwardProp", "train", <<0>>))
  /\ UNCHANGED <<imgData, labels, mA, mB, mR>>

\* this.backProp(0); index++
TrainBack ==
  /\ pc.at = "back"
  /\ ~heap.err
  /\ \E s \in {backProp(Self, labels, 0)} : DoneN(s)
  /\ pc' = TrainPc(pc)
  /\ hist' = Append(hist, Event("backProp", "train", <<0>>))
  /\ UNCHANGED <<imgData, labels, mA, mB, mR>>

\* index >= count: train returns
TrainReturn ==
  /\ pc.at = "loop"
  /\ pc.index >= pc.count
  /\ pc' = TrainPc(pc)
  /\ hist' = Append(hist, Event("return", "train", <<pc.index>>))
  /\ UNCHANGED <<heap, net, imgData, labels, mA, mB, mR>>

\* the change of position every statement of train makes, enabled exactly
\* when TrainForward, TrainBack or TrainReturn is
TrainStep ==
  /\ pc.at # "idle"
  /\ pc.index < pc.count \/ pc.at = "back" => ~heap.err
  /\ pc' = TrainPc(pc)

Next ==
  \/ ForwardProp
  \/ BackProp
  \/ GetCost
  \/ Train
  \/ TrainForward
  \/ TrainBack
  \/ TrainReturn

Spec == Init /\ [][Next]_vars

\* train is one synchronous call: while it is in progress its next statement
\* is executed.  The steps that change pc as TrainStep does are exactly the
\* steps of TrainForward, TrainBack and TrainReturn.
FairSpec == Spec /\ WF_pc(TrainStep)

\* a program uses the network or the free-standing matrices
InitAll == Init \/ InitM

NextAll == Next \/ NextM

SpecAll == InitAll /\ [][NextAll]_vars

----------------------------------------------------------------------------
(* Grids of numbers: the mathematics the claims are stated in *)

RECURSIVE GDot(_, _, _, _, _)
GDot(A, B, i, j, k) ==
  IF k = 0 THEN 0 ELSE GDot(A, B, i, j, k - 1) + Mul(A[i][k], B[k][j])

GMul(A, B) == [i \in 1..Len(A) |-> [j \in 1..Len(B[1]) |-> GDot(A, B, i, j, Len(B))]]

GAdd(A, B) == [i \in 1..Len(A) |-> [j \in 1..Len(A[1]) |-> A[i][j] + B[i][j]]]

GSub(A, B) == [i \in 1..Len(A) |-> [j \in 1..Len(A[1]) |-> A[i][j] - B[i][j]]]

GHad(A, B) == [i \in 1..Len(A) |-> [j \in 1..Len(A[1]) |-> Mul(A[i][j], B[i][j])]]

GScale(A, k) == [i \in 1..Len(A) |-> [j \in 1..Len(A[1]) |-> Mul(A[i][j], k)]]

GT(A) == [j \in 1..Len(A[1]) |-> [i \in 1..Len(A) |-> A[i][j]]]

GMap(f, A) == [i \in 1..Len(A) |-> [j \in 1..Len(A[1]) |-> Call(f, A[i][j])]]

\* a sequence of numbers as a column
GCol(v) == [i \in 1..Len(v) |-> <<v[i]>>]

\* the one-hot column of the class desired (0-based) among n
GOneHot(n, desired) == [i \in 1..n |-> <<IF i = desired + 1 THEN ONE ELSE 0>>]

\* the numbers the slots of the network hold
WVal(l) == Val(heap, net.weights[l])

BVal(l) == Val(heap, net.biases[l])

AVal(l) == Val(heap, net.activations[l])

ZVal(l) == Val(heap, net.Z[l])

Layers == Len(net.structure)

Built == net.layerCount > 0

----------------------------------------------------------------------------
(* C1 *)

\* C1: after construction and after every forwardProp / backProp, no call
\* has failed, weights[l] has shape (structure[l+1], structure[l]),
\* biases[l] has shape (structure[l+1], 1), and activations[l] and Z[l]
\* have shape (structure[l], 1)
ShapesKept ==
  Built =>
    /\ ~heap.err
    /\ Len(net.weights) = Layers - 1
    /\ Len(net.biases) = Layers - 1
    /\ Len(net.activations) = Layers
    /\ Len(net.Z) = Layers
    /\ \A l \in 1..(Layers - 1) :
         /\ HasShape(heap, net.weights[l], net.structure[l + 1], net.structure[l])
         /\ HasShape(heap, net.biases[l], net.structure[l + 1], 1)
    /\ \A l \in 1..Layers :
         /\ HasShape(heap, net.activations[l], net.structure[l], 1)
         /\ HasShape(heap, net.Z[l], net.structure[l], 1)

\* a backProp has followed a forwardProp on a network whose layers differ in size
ShapesKeptWitness ==
  /\ Built
  /\ Len(hist) >= 2
  /\ hist[Len(hist) - 1].op = "forwardProp"
  /\ Last.op = "backProp"
  /\ net.structure = <<2, 1>>
  /\ size(heap, net.weights[1]) = <<1, 2>>

----------------------------------------------------------------------------
(* C2 *)

\* C2: right after construction every entry of every biases[l] is 0
BiasesZeroAtConstruction ==
  (Built /\ hist = <<>>) =>
    \A l \in 1..(Layers - 1) :
      \A r \in 1..Len(BVal(l)) : BVal(l)[r][1] = 0

----------------------------------------------------------------------------
(* C5 *)

ParamsVal == [l \in 1..(Layers - 1) |-> <<WVal(l), BVal(l)>>]

CachesVal == [l \in 1..Layers |-> <<AVal(l), ZVal(l)>>]

\* C5: a forwardProp leaves every entry of every weights[l] and biases[l]
\* unchanged, and a getCost leaves weights, biases, activations and Z unchanged
ForwardKeepsParams ==
  [][/\ (hist' # hist /\ Last'.op = "forwardProp") => ParamsVal' = ParamsVal
     /\ (hist' # hist /\ Last'.op = "getCost") =>
           (ParamsVal' = ParamsVal /\ CachesVal' = CachesVal)]_vars

\* a forwardProp has overwritten the activations of a network with non-zero
\* parameters, and a getCost has followed
ForwardKeepsParamsWitness ==
  /\ Built
  /\ Len(hist) >= 2
  /\ hist[Len(hist) - 1].op = "forwardProp"
  /\ Last.op = "getCost"
  /\ AVal(Layers)[1][1] # 0
  /\ WVal(1)[1][1] # 0
  /\ BVal(1)[1][1] # 0

----------------------------------------------------------------------------
(* C10 *)

----------------------------------------------------------------------------
(* C3 *)

BinaryOps == {"mult", "add", "subtract", "hadamard"}

\* C3: add, subtract and hadamard return false when the shapes of the
\* operands differ and mult returns false when A.columns # B.rows; otherwise
\* the result is a matrix of shape (A.rows, A.columns), for mult
\* (A.rows, B.columns); the contents of both operands are unchanged
MismatchReported ==
  [][(hist' # hist /\ Last'.op \in BinaryOps) =>
       LET a == IF Last'.on = "A" THEN mA ELSE mB
           b == IF Last'.on = "A" THEN mB ELSE mA
           compatible == IF Last'.op = "mult"
                         THEN size(heap, a)[2] = size(heap, b)[1]
                         ELSE size(heap, a) = size(heap, b)
           columns == IF Last'.op = "mult" THEN size(heap, b)[2] ELSE size(heap, a)[2]
       IN  /\ ~heap'.err
           /\ ~compatible => mR' = False
           /\ compatible => HasShape(heap', mR', size(heap, a)[1], columns)
           /\ Val(heap', mA') = Val(heap, mA)
           /\ Val(heap', mB') = Val(heap, mB)]_vars

\* a 2 x 1 matrix was added to a 1 x 2 matrix and false came back
MismatchReportedWitness ==
  /\ mA # False
  /\ Last.op = "add"
  /\ size(heap, mA) = <<2, 1>>
  /\ size(heap, mB) = <<1, 2>>
  /\ mR = False

----------------------------------------------------------------------------
(* C9 *)

\* C9: transpose() turns a matrix of shape (R, C) into one of shape (C, R)
\* whose entry (c, r) is the old entry (r, c), and a second transpose()
\* restores the shape and every entry
TransposeInvolution ==
  /\ [][(hist' # hist /\ Last'.op = "transpose") =>
          LET m == IF Last'.on = "A" THEN mA ELSE mB
              m2 == IF Last'.on = "A" THEN mA' ELSE mB'
          IN  /\ HasShape(heap', m2, size(heap, m)[2], size(heap, m)[1])
              /\ \A r \in 1..size(heap, m)[1], c \in 1..size(heap, m)[2] :
                   get(heap', m2, c, r) = get(heap, m, r, c)]_vars
  /\ [](mA # False =>
          \A m \in {mA, mB} :
            LET twice == transpose(transpose(heap, m), m)
            IN  /\ HasShape(twice, m, size(heap, m)[1], size(heap, m)[2])
                /\ Val(twice, m) = Val(heap, m))

\* a 1 x 2 matrix with two different entries was transposed to a 2 x 1 matrix
TransposeInvolutionWitness ==
  /\ mA # False
  /\ Last.op = "transpose"
  /\ Last.on = "A"
  /\ size(heap, mA) = <<2, 1>>
  /\ get(heap, mA, 1, 1) # get(heap, mA, 2, 1)

----------------------------------------------------------------------------
(* C4 *)

\* C4: after forwardProp, activations[0] is the sample, and for every layer
\* l >= 1, Z[l] = weights[l-1] * activations[l-1] + biases[l-1],
\* activations[l] = sigmoid(Z[l]) elementwise, and Z[l] and activations[l]
\* share no storage
ForwardComputes ==
  (Built /\ Last.op = "forwardProp") =>
    /\ AVal(1) = GCol(imgData[Last.arg[1] + 1])
    /\ \A k \in 2..Layers :
         /\ ZVal(k) = GAdd(GMul(WVal(k - 1), AVal(k - 1)), BVal(k - 1))
         /\ AVal(k) = GMap("sigmoid", ZVal(k))
         /\ ~Shares(heap, net.Z[k], net.activations[k])

\* a forwardProp through a hidden layer, with a non-zero pre-activation in
\* the last layer
ForwardComputesWitness ==
  /\ Built
  /\ Last.op = "forwardProp"
  /\ Layers = 3
  /\ AVal(1)[1][1] # 0
  /\ ZVal(2)[1][1] # 0
  /\ ZVal(3)[1][1] # 0
  /\ WVal(2)[1][1] # 0

----------------------------------------------------------------------------
(* C6 *)

\* X[l] for the 1-based layer k = l + 1 and the class desired
RECURSIVE XE(_, _)
XE(k, desired) ==
  IF k = Layers
  THEN GHad(GScale(GSub(AVal(k), GOneHot(net.structure[Layers], desired)), 2 * ONE),
            GMap("sigPrime", ZVal(k)))
  ELSE GHad(GMul(GT(WVal(k)), XE(k + 1, desired)), GMap("sigPrime", ZVal(k)))

CWE(k, desired) == GMul(XE(k + 1, desired), GT(AVal(k)))

CBE(k, desired) == GHad(XE(k + 1, desired), BVal(k))

\* the parameters one backProp for the class desired leaves; the scaling by
\* alpha is applied to the parameter before the product with the gradient
UpdatedParams(desired) ==
  [k \in 1..(Layers - 1) |->
     <<GSub(WVal(k), GHad(GScale(WVal(k), Alpha), CWE(k, desired))),
       GSub(BVal(k), GHad(GScale(BVal(k), Alpha), CBE(k, desired)))>>]

----------------------------------------------------------------------------
(* C8 *)

InPlaceOps == {"set", "scalarMult", "scalarDiv", "apply:sigmoid", "apply:sigPrime", "transpose"}

\* the clone-then-mutate uses of backProp, made on the current network,
\* leave the numbers of the cloned slot as they are
CloneUsesKeep ==
  Built =>
    /\ \A l \in 1..(Layers - 1) :
         LET h1 == MatrixNew(heap, 1, 1, <<ONE>>, <<>>)
             h2 == clone(h1, h1.ret, net.weights[l])
             scaled == scalarMult(h2, h1.ret, Alpha)
             turned == transpose(h2, h1.ret)
             b2 == clone(h1, h1.ret, net.biases[l])
             scaledB == scalarMult(b2, h1.ret, Alpha)
         IN  /\ Val(h2, h1.ret) = WVal(l)
             /\ Val(scaled, h1.ret) = GScale(WVal(l), Alpha)
             /\ Val(scaled, net.weights[l]) = WVal(l)
             /\ Val(turned, h1.ret) = GT(WVal(l))
             /\ Val(turned, net.weights[l]) = WVal(l)
             /\ Val(scaledB, h1.ret) = GScale(BVal(l), Alpha)
             /\ Val(scaledB, net.biases[l]) = BVal(l)
    /\ \A l \in 1..Layers :
         LET h1 == MatrixNew(heap, 1, 1, <<ONE>>, <<>>)
             h2 == clone(h1, h1.ret, net.activations[l])
             turned == transpose(h2, h1.ret)
         IN  /\ Val(turned, h1.ret) = GT(AVal(l))
             /\ Val(turned, net.activations[l]) = AVal(l)

\* C8: after A.clone(B), A has B's shape and entries, B is unchanged and A
\* and B share no storage; an in-place operation on one of two matrices
\* leaves the shape and entries of the other unchanged; the clone-then-mutate
\* uses of backProp leave the network's weights, biases and activations as
\* they are
CloneIsolates ==
  /\ [][(hist' # hist /\ Last'.op = "clone") =>
          LET b == IF Last'.on = "A" THEN mB ELSE mA
              a2 == IF Last'.on = "A" THEN mA' ELSE mB'
              b2 == IF Last'.on = "A" THEN mB' ELSE mA'
          IN  /\ Rectangular(heap', a2)
              /\ Val(heap', a2) = Val(heap, b)
              /\ Val(heap', b2) = Val(heap, b)
              /\ ~Shares(heap', a2, b2)]_vars
  /\ [][(hist' # hist /\ Last'.op \in InPlaceOps /\ Last'.on \in {"A", "B"}) =>
          LET other == IF Last'.on = "A" THEN mB ELSE mA
              other2 == IF Last'.on = "A" THEN mB' ELSE mA'
          IN  Val(heap', other2) = Val(heap, other)]_vars
  /\ [](mA # False => ~Shares(heap, mA, mB))
  /\ []CloneUsesKeep

\* B was cloned into a matrix A of another shape, and A was then scaled in place
CloneIsolatesWitness ==
  /\ mA # False
  /\ Len(hist) = 2
  /\ hist[1] = Event("clone", "A", <<>>)
  /\ hist[2].op = "scalarMult"
  /\ hist[2].on = "A"
  /\ size(heap, mA) = <<2, 2>>
  /\ Val(heap, mA) # Val(heap, mB)

----------------------------------------------------------------------------
(* C7 *)

\* every call of train(count) is followed by count times forwardProp(0)
\* then backProp(0), and then returns
TrainPattern ==
  /\ \A t \in 1..Len(hist) :
       hist[t].op = "train" =>
         \A j \in (t + 1)..Len(hist) :
           LET count == hist[t].arg[1]
               d == j - t
           IN  /\ (d <= 2 * count /\ d % 2 = 1) => hist[j] = Event("forwardProp", "train", <<0>>)
               /\ (d <= 2 * count /\ d % 2 = 0) => hist[j] = Event("backProp", "train", <<0>>)
               /\ d = 2 * count + 1 => hist[j] = Event("return", "train", <<count>>)
               /\ d = 2 * count + 2 => hist[j].on = "net"
  /\ \A j \in 1..Len(hist) :
       hist[j].on = "train" =>
         \E t \in 1..(j - 1) : hist[t].op = "train" /\ j - t <= 2 * hist[t].arg[1] + 1
  /\ pc = Idle <=>
       \A t \in 1..Len(hist) :
         hist[t].op = "train" => t + 2 * hist[t].arg[1] + 1 <= Len(hist)

\* C7: train(count) returns after exactly count cycles, each a forwardProp
\* of sample 0 run to completion followed by a backProp of sample 0
TrainCycles ==
  /\ []TrainPattern
  /\ []((Built /\ Last = Event("forwardProp", "train", <<0>>)) => AVal(1) = GCol(imgData[1]))
  /\ [][(hist' # hist /\ Last' = Event("backProp", "train", <<0>>)) =>
          /\ ForwardComputes
          /\ AVal(1) = GCol(imgData[1])
          /\ ParamsVal' = UpdatedParams(labels[1])]_vars
  /\ (pc.at # "idle") ~> (pc = Idle)

\* train(2) has returned after two cycles that changed a weight
TrainCyclesWitness ==
  /\ Built
  /\ pc = Idle
  /\ Len(hist) >= 6
  /\ hist[Len(hist) - 5] = Event("train", "net", <<2>>)
  /\ Last = Event("return", "train", <<2>>)
  /\ WVal(1)[1][1] \notin RandVals

=============================================================================
